---------------------------- MODULE Spec2Model ----------------------------
(***************************************************************************)
(* Model of the ASF software FIFO (fifo.h) of HarpXTuned: a ring buffer    *)
(* with a double-index range (indices run over 2*size, slots over size).   *)
(***************************************************************************)
EXTENDS Integers, Sequences, FiniteSets, TLC

VARIABLES
    fifo_desc,      \* struct fifo_desc: read_index, write_index, size, mask
    buffer,         \* the caller's storage block, buffer[0 .. size-1]
    width,          \* element width in bits of the union member the caller uses
    inited,         \* TRUE once fifo_init has returned FIFO_OK
    arg,            \* the size argument of the last fifo_init call
    op,             \* name of the last operation that returned
    ret,            \* status returned by that operation
    item,           \* the caller's variable that checked pulls write through *item
    val,            \* value returned by the last query, peek or unchecked pull
    pushed,         \* history: values accepted by successful pushes and not
                    \* discarded by a flush, oldest first
    pulled,         \* history: values delivered by successful pulls, oldest first
    prod,           \* producer context, position inside fifo_push_uintN
    cons,           \* consumer context, position inside fifo_pull_uintN
    raced,          \* TRUE once a flush has overlapped an operation of the
                    \* other context
    curChannel,     \* main.c: multiplexer channel of the next sample
    writePos,       \* main.c: column of buf the samples are added up in
    overSamplePos,  \* main.c: number of rounds over the channels added up
    railFull,       \* main.c: flag for the main loop, a column is complete
    calls,          \* history: number of complete invocations of HFSampleLoop
    railSets,       \* history: number of times railFull = true was executed
    cell            \* history: the element of buf the last invocation accessed

vars == <<fifo_desc, buffer, width, inited, arg, op, ret, item, val, pushed, pulled,
          prod, cons, raced,
          curChannel, writePos, overSamplePos, railFull, calls, railSets, cell>>

sampleVars == <<curChannel, writePos, overSamplePos, railFull, calls, railSets, cell>>
fifoVars == <<fifo_desc, buffer, width, inited, arg, op, ret, item, val, pushed,
              pulled, prod, cons, raced>>
concVars == <<prod, cons, raced, sampleVars>>
restVars == <<arg, val, prod, cons, raced, sampleVars>>

---------------------------------------------------------------------------
\* Bounds of the model.

\* log2 of the largest capacity of the sequential specifications
MaxSizeLog == 2
\* number of accepted pushes recorded in a history of the sequential specifications
MaxPushes == 8
\* number of accepted pushes of the specification with flush
FlushPushes == 4
\* log2 of the largest capacity of the specification with unchecked operations
AllSizeLog == 1
\* number of pushes, and of pulls, recorded by that specification
AllOps == 4
\* log2 of the largest capacity of the interleaved specification
ConcSizeLog == 1
\* number of accepted pushes of the interleaved specification
ConcPushes == 4
\* log2 of the largest capacity, accepted pushes and pulls before a flush
\* of the specification with concurrent flushes
RaceSizeLog == 1
RacePushes == 2
RaceOps == 2
\* log2 of the largest capacity and accepted pushes of the specification
\* with fair scheduling
LiveSizeLog == 0
LivePushes == 2
\* log2 of the largest capacity and number of pushes (pulls) of the
\* specification of the index ranges
IndexSizeLog == 1
IndexOps == 5
\* log2 of the largest capacity and number of pushes of the specification of
\* the element widths
WidthSizeLog == 1
WidthOps == 4
\* number of invocations of HFSampleLoop: one round of writePos and a bit
SampleCalls == 32800
\* pushes beyond one round of the indices, and elements held, in the sweep
\* of the indices
SlotOps == 4
SlotDepth == 2

---------------------------------------------------------------------------
\* Program constants.

FIFO_OK == 0
FIFO_ERROR_OVERFLOW == 1
FIFO_ERROR_UNDERFLOW == 2
FIFO_ERROR == 3

\* "The maximum fifo size is 128 items"
FIFO_MAX_SIZE == 128

\* main.c
MAXBUFFER == 2048
CHANNELS == 4
OVERSAMPLING == 4

\* widths of the union members u8ptr, u16ptr, u32ptr
Widths == {8, 16, 32}

\* values a caller passes as uint32_t item: one that fits every width, one
\* that fits 16 bits only and one that needs all 32 bits (0x01020304)
Items == {7, 258, 16909060}

\* content of a storage block nobody has written yet
Garbage == {0, 255}

RECURSIVE Pow2(_)
Pow2(n) == IF n = 0 THEN 1 ELSE 2 * Pow2(n - 1)

\* uint8_t conversion
U8(x) == x % 256

\* int on the target is 16 bits wide: the bit pattern of a promoted int
IntBits(x) == x % 65536

RECURSIVE BitAnd(_, _)
BitAnd(a, b) ==
    IF a = 0 \/ b = 0 THEN 0
    ELSE (a % 2) * (b % 2) + 2 * BitAnd(a \div 2, b \div 2)

\* the slot keeps the whole uint32_t item whatever its width
Elem_wide(w, v) == v

\* conversion of a uint32_t item to an element of the slot's width (the
\* assignment to a uint32_t slot converts nothing)
Elem(w, v) == IF w = 32 THEN v ELSE v % Pow2(w)

---------------------------------------------------------------------------
\* Queries.

\* the difference masked over the slot range instead of the double range
fifo_get_used_size_single(d) ==
    U8(BitAnd(IntBits(d.write_index - d.read_index), d.mask \div 2))

fifo_get_used_size(d) ==
    U8(BitAnd(IntBits(d.write_index - d.read_index), d.mask))

fifo_get_free_size(d) == U8(d.size - fifo_get_used_size(d))

fifo_is_empty(d) == d.write_index = d.read_index

\* full at size - 1 elements, as in a ring with one index range
fifo_is_full_short(d) == fifo_get_used_size(d) = d.size - 1

\* full only above size elements
fifo_is_full_over(d) == fifo_get_used_size(d) > d.size

fifo_is_full(d) == fifo_get_used_size(d) = d.size

\* the index is masked with the whole mask, the shift is left out
Slot_unshifted(d, index) == BitAnd(index, d.mask)

\* slot addressed by an index: index & (mask >> 1)
Slot(d, index) == BitAnd(index, d.mask \div 2)

\* the index wrapped over the slot range, as in a ring with one index range
Advance_single(d, index) == BitAnd(index + 1, d.mask \div 2)

\* the advanced index is not masked
Advance_nomask(d, index) == U8(index + 1)

\* index advanced by one: (index + 1) & mask
Advance(d, index) == BitAnd(index + 1, d.mask)

---------------------------------------------------------------------------
\* Initialization.

\* the test that lets 0 pass
IsPow2_zero(n) == BitAnd(n, IntBits(n - 1)) = 0

\* "It must be a 2-power"
IsPow2(n) == n # 0 /\ BitAnd(n, IntBits(n - 1)) = 0

\* a context outside any fifo function: no locals, the status it got last
idle == [pc |-> "idle", nocheck |-> FALSE, v |-> 0, w |-> 0, r |-> 0,
         index |-> 0, done |-> {}, ret |-> FIFO_OK]

\* the mask of a ring with one index range
fifo_init_single(size, w, g) ==
    /\ ~inited
    /\ op' = "init"
    /\ arg' = size
    /\ width' = w
    /\ IF IsPow2(size) /\ size <= FIFO_MAX_SIZE
       THEN /\ fifo_desc' = [read_index |-> 0, write_index |-> 0,
                             size |-> size, mask |-> U8(size - 1)]
            /\ buffer' = [i \in 0..(size - 1) |-> g]
            /\ inited' = TRUE
            /\ ret' = FIFO_OK
       ELSE /\ ret' = FIFO_ERROR
            /\ UNCHANGED <<fifo_desc, buffer, inited,
                   sampleVars>>
    /\ UNCHANGED <<item, val, pushed, pulled, concVars>>

fifo_init(size, w, g) ==
    /\ ~inited
    /\ op' = "init"
    /\ arg' = size
    /\ width' = w
    /\ IF IsPow2(size) /\ size <= FIFO_MAX_SIZE
       THEN /\ fifo_desc' = [read_index |-> 0, write_index |-> 0,
                             size |-> size, mask |-> U8(2 * size - 1)]
            /\ buffer' = [i \in 0..(size - 1) |-> g]
            /\ inited' = TRUE
            /\ ret' = FIFO_OK
       ELSE /\ ret' = FIFO_ERROR
            /\ UNCHANGED <<fifo_desc, buffer, inited,
                   sampleVars>>
    /\ UNCHANGED <<item, val, pushed, pulled, concVars>>

---------------------------------------------------------------------------
\* Checked push, one function per width with the same body.

\* the index is advanced first and the item stored at the advanced index
push_checked_late(w, v) ==
    /\ inited /\ width = w
    /\ op' = "push"
    /\ IF fifo_is_full(fifo_desc)
       THEN /\ ret' = FIFO_ERROR_OVERFLOW
            /\ UNCHANGED <<fifo_desc, buffer, pushed,
                   sampleVars>>
       ELSE LET write_index == Advance(fifo_desc, fifo_desc.write_index) IN
            /\ buffer' = [buffer EXCEPT ![Slot(fifo_desc, write_index)] = Elem(w, v)]
            /\ fifo_desc' = [fifo_desc EXCEPT !.write_index = write_index]
            /\ ret' = FIFO_OK
            /\ pushed' = Append(pushed, v)
    /\ UNCHANGED <<width, inited, item, pulled, restVars>>

push_checked(w, v) ==
    /\ inited /\ width = w
    /\ op' = "push"
    /\ IF fifo_is_full(fifo_desc)
       THEN /\ ret' = FIFO_ERROR_OVERFLOW
            /\ UNCHANGED <<fifo_desc, buffer, pushed,
                   sampleVars>>
       ELSE LET write_index == fifo_desc.write_index IN
            /\ buffer' = [buffer EXCEPT ![Slot(fifo_desc, write_index)] = Elem(w, v)]
            /\ fifo_desc' = [fifo_desc EXCEPT
                                !.write_index = Advance(fifo_desc, write_index)]
            /\ ret' = FIFO_OK
            /\ pushed' = Append(pushed, v)
    /\ UNCHANGED <<width, inited, item, pulled, restVars>>

fifo_push_uint8(v) == push_checked(8, v)
fifo_push_uint16(v) == push_checked(16, v)
fifo_push_uint32(v) == push_checked(32, v)

---------------------------------------------------------------------------
\* Checked pull.

\* *item is assigned before the underflow check
pull_checked_early(w) ==
    /\ inited /\ width = w
    /\ op' = "pull"
    /\ item' = buffer[Slot(fifo_desc, fifo_desc.read_index)]
    /\ IF fifo_is_empty(fifo_desc)
       THEN /\ ret' = FIFO_ERROR_UNDERFLOW
            /\ UNCHANGED <<fifo_desc, pulled,
                   sampleVars>>
       ELSE /\ fifo_desc' = [fifo_desc EXCEPT
                                !.read_index = Advance(fifo_desc, fifo_desc.read_index)]
            /\ ret' = FIFO_OK
            /\ pulled' = Append(pulled, item')
    /\ UNCHANGED <<buffer, width, inited, pushed, restVars>>

\* the slot is read after read_index has been advanced
pull_checked_late(w) ==
    /\ inited /\ width = w
    /\ op' = "pull"
    /\ IF fifo_is_empty(fifo_desc)
       THEN /\ ret' = FIFO_ERROR_UNDERFLOW
            /\ UNCHANGED <<fifo_desc, item, pulled,
                   sampleVars>>
       ELSE LET read_index == Advance(fifo_desc, fifo_desc.read_index) IN
            /\ item' = buffer[Slot(fifo_desc, read_index)]
            /\ fifo_desc' = [fifo_desc EXCEPT !.read_index = read_index]
            /\ ret' = FIFO_OK
            /\ pulled' = Append(pulled, item')
    /\ UNCHANGED <<buffer, width, inited, pushed, restVars>>

pull_checked(w) ==
    /\ inited /\ width = w
    /\ op' = "pull"
    /\ IF fifo_is_empty(fifo_desc)
       THEN /\ ret' = FIFO_ERROR_UNDERFLOW
            /\ UNCHANGED <<fifo_desc, item, pulled,
                   sampleVars>>
       ELSE LET read_index == fifo_desc.read_index IN
            /\ item' = buffer[Slot(fifo_desc, read_index)]
            /\ fifo_desc' = [fifo_desc EXCEPT
                                !.read_index = Advance(fifo_desc, read_index)]
            /\ ret' = FIFO_OK
            /\ pulled' = Append(pulled, item')
    /\ UNCHANGED <<buffer, width, inited, pushed, restVars>>

fifo_pull_uint8 == pull_checked(8)
fifo_pull_uint16 == pull_checked(16)
fifo_pull_uint32 == pull_checked(32)

---------------------------------------------------------------------------
\* Flush.

\* only write_index is reset
fifo_flush_write_only ==
    /\ inited
    /\ op' = "flush"
    /\ fifo_desc' = [fifo_desc EXCEPT !.write_index = 0]
    /\ pushed' = SubSeq(pushed, 1, IF Len(pulled) < Len(pushed) THEN Len(pulled) ELSE Len(pushed))
    /\ UNCHANGED <<buffer, width, inited, ret, item, pulled, restVars>>

fifo_flush ==
    /\ inited
    /\ op' = "flush"
    /\ fifo_desc' = [fifo_desc EXCEPT !.write_index = 0, !.read_index = 0]
    /\ pushed' = SubSeq(pushed, 1, IF Len(pulled) < Len(pushed) THEN Len(pulled) ELSE Len(pushed))
    /\ UNCHANGED <<buffer, width, inited, ret, item, pulled, restVars>>

---------------------------------------------------------------------------
\* Unchecked push and pull: the bodies of the checked ones without the test.
\* The push returns nothing, the pull returns the element.

\* the index is advanced first and the item stored at the advanced index
push_nocheck_late(w, v) ==
    /\ inited /\ width = w
    /\ op' = "push_nocheck"
    /\ LET write_index == Advance(fifo_desc, fifo_desc.write_index) IN
       /\ buffer' = [buffer EXCEPT ![Slot(fifo_desc, write_index)] = Elem(w, v)]
       /\ fifo_desc' = [fifo_desc EXCEPT !.write_index = write_index]
    /\ pushed' = Append(pushed, v)
    /\ UNCHANGED <<width, inited, ret, item, pulled, restVars>>

\* on a full buffer the oldest element is dropped: read_index moves as well
push_nocheck_drop(w, v) ==
    /\ inited /\ width = w
    /\ op' = "push_nocheck"
    /\ LET write_index == fifo_desc.write_index IN
       /\ buffer' = [buffer EXCEPT ![Slot(fifo_desc, write_index)] = Elem(w, v)]
       /\ fifo_desc' = [fifo_desc EXCEPT
                           !.write_index = Advance(fifo_desc, write_index),
                           !.read_index = IF fifo_is_full(fifo_desc)
                                          THEN Advance(fifo_desc, @) ELSE @]
    /\ pushed' = Append(pushed, v)
    /\ UNCHANGED <<width, inited, ret, item, pulled, restVars>>

push_nocheck(w, v) ==
    /\ inited /\ width = w
    /\ op' = "push_nocheck"
    /\ LET write_index == fifo_desc.write_index IN
       /\ buffer' = [buffer EXCEPT ![Slot(fifo_desc, write_index)] = Elem(w, v)]
       /\ fifo_desc' = [fifo_desc EXCEPT
                           !.write_index = Advance(fifo_desc, write_index)]
    /\ pushed' = Append(pushed, v)
    /\ UNCHANGED <<width, inited, ret, item, pulled, restVars>>

fifo_push_uint8_nocheck(v) == push_nocheck(8, v)
fifo_push_uint16_nocheck(v) == push_nocheck(16, v)
fifo_push_uint32_nocheck(v) == push_nocheck(32, v)

\* the slot is cleared once it has been read
pull_nocheck_clear(w) ==
    /\ inited /\ width = w
    /\ op' = "pull_nocheck"
    /\ LET read_index == fifo_desc.read_index IN
       /\ val' = buffer[Slot(fifo_desc, read_index)]
       /\ buffer' = [buffer EXCEPT ![Slot(fifo_desc, read_index)] = 0]
       /\ fifo_desc' = [fifo_desc EXCEPT
                           !.read_index = Advance(fifo_desc, read_index)]
    /\ pulled' = Append(pulled, val')
    /\ UNCHANGED <<width, inited, arg, ret, item, pushed, concVars>>

pull_nocheck(w) ==
    /\ inited /\ width = w
    /\ op' = "pull_nocheck"
    /\ LET read_index == fifo_desc.read_index IN
       /\ val' = buffer[Slot(fifo_desc, read_index)]
       /\ fifo_desc' = [fifo_desc EXCEPT
                           !.read_index = Advance(fifo_desc, read_index)]
    /\ pulled' = Append(pulled, val')
    /\ UNCHANGED <<buffer, width, inited, arg, ret, item, pushed, concVars>>

fifo_pull_uint8_nocheck == pull_nocheck(8)
fifo_pull_uint16_nocheck == pull_nocheck(16)
fifo_pull_uint32_nocheck == pull_nocheck(32)

---------------------------------------------------------------------------
\* Peek and the queries, as calls: each returns a value and stores nothing.

\* a bool returned to the caller
B(x) == IF x THEN 1 ELSE 0

\* the newest element is read instead of the oldest
peek_newest(w) ==
    /\ inited /\ width = w
    /\ op' = "peek"
    /\ val' = buffer[Slot(fifo_desc, IntBits(fifo_desc.write_index - 1))]
    /\ UNCHANGED <<fifo_desc, buffer, width, inited, arg, ret, item,
                   pushed, pulled, concVars>>

\* the element is removed as by a pull
peek_consume(w) ==
    /\ inited /\ width = w
    /\ op' = "peek"
    /\ val' = buffer[Slot(fifo_desc, fifo_desc.read_index)]
    /\ fifo_desc' = [fifo_desc EXCEPT
                        !.read_index = Advance(fifo_desc, fifo_desc.read_index)]
    /\ UNCHANGED <<buffer, width, inited, arg, ret, item,
                   pushed, pulled, concVars>>

peek(w) ==
    /\ inited /\ width = w
    /\ op' = "peek"
    /\ val' = buffer[Slot(fifo_desc, fifo_desc.read_index)]
    /\ UNCHANGED <<fifo_desc, buffer, width, inited, arg, ret, item,
                   pushed, pulled, concVars>>

fifo_peek_uint8 == peek(8)
fifo_peek_uint16 == peek(16)
fifo_peek_uint32 == peek(32)

query(name, result) ==
    /\ inited
    /\ op' = name
    /\ val' = result
    /\ UNCHANGED <<fifo_desc, buffer, width, inited, arg, ret, item,
                   pushed, pulled, concVars>>

call_get_used_size == query("get_used_size", fifo_get_used_size(fifo_desc))
call_get_free_size == query("get_free_size", fifo_get_free_size(fifo_desc))
call_is_empty == query("is_empty", B(fifo_is_empty(fifo_desc)))
call_is_full == query("is_full", B(fifo_is_full(fifo_desc)))

---------------------------------------------------------------------------
\* Sequential specification: one caller, checked operations only.

Sizes == {Pow2(k) : k \in 0..MaxSizeLog}

Init ==
    /\ fifo_desc = [read_index |-> 0, write_index |-> 0, size |-> 0, mask |-> 0]
    /\ buffer = <<>>
    /\ width = 8
    /\ inited = FALSE
    /\ arg = 0
    /\ op = "none"
    /\ ret = FIFO_OK
    /\ item = 0
    /\ pushed = <<>>
    /\ pulled = <<>>
    /\ val = 0
    /\ prod = idle
    /\ cons = idle
    /\ raced = FALSE
    /\ curChannel = 0
    /\ writePos = 0
    /\ overSamplePos = 0
    /\ railFull = FALSE
    /\ calls = 0
    /\ railSets = 0
    /\ cell = <<0, 0>>

DoInit == \E s \in Sizes, w \in Widths, g \in Garbage : fifo_init(s, w, g)

PushFrom(S, n) ==
    /\ Len(pushed) < n
    /\ \E v \in S :
          \/ fifo_push_uint8(v)
          \/ fifo_push_uint16(v)
          \/ fifo_push_uint32(v)

PushUpTo(n) == PushFrom(Items, n)

DoPush == PushUpTo(MaxPushes)

DoPull ==
    \/ fifo_pull_uint8
    \/ fifo_pull_uint16
    \/ fifo_pull_uint32

Next == DoInit \/ DoPush \/ DoPull

Spec == Init /\ [][Next]_vars

\* The same caller, who may also flush.
NextFlush == DoInit \/ PushUpTo(FlushPushes) \/ DoPull \/ fifo_flush

SpecFlush == Init /\ [][NextFlush]_vars

\* The same caller, who also peeks and asks the queries; the items are those
\* of the scenario "push 7, pop 7, push 9, peek 9, pop 9".
PeekItems == {7, 9}

DoPeek ==
    \/ fifo_peek_uint8
    \/ fifo_peek_uint16
    \/ fifo_peek_uint32

DoQuery ==
    \/ call_get_used_size
    \/ call_get_free_size
    \/ call_is_empty
    \/ call_is_full

NextQuery ==
    \/ DoInit
    \/ PushFrom(PeekItems, FlushPushes)
    \/ DoPull
    \/ fifo_flush
    \/ DoPeek
    \/ DoQuery

SpecQuery == Init /\ [][NextQuery]_vars

---------------------------------------------------------------------------
\* One caller of every push and pull variant. The unchecked variants are
\* called in any state, also on a full or an empty buffer.

AllSizes == {Pow2(k) : k \in 0..AllSizeLog}

AllInit == \E s \in AllSizes, w \in Widths, g \in Garbage : fifo_init(s, w, g)

AllPush ==
    /\ Len(pushed) < AllOps
    /\ \E v \in Items :
          \/ fifo_push_uint8(v)
          \/ fifo_push_uint16(v)
          \/ fifo_push_uint32(v)
          \/ fifo_push_uint8_nocheck(v)
          \/ fifo_push_uint16_nocheck(v)
          \/ fifo_push_uint32_nocheck(v)

AllPull ==
    /\ Len(pulled) < AllOps
    /\ \/ fifo_pull_uint8
       \/ fifo_pull_uint16
       \/ fifo_pull_uint32
       \/ fifo_pull_uint8_nocheck
       \/ fifo_pull_uint16_nocheck
       \/ fifo_pull_uint32_nocheck

NextAll == AllInit \/ AllPush \/ AllPull

SpecAll == Init /\ [][NextAll]_vars

\* One caller of every push and pull variant who keeps to the contract of
\* the unchecked ones: no unchecked push on a full buffer, no unchecked pull
\* on an empty one.
WidthSizes == {Pow2(k) : k \in 0..WidthSizeLog}
WidthInit == \E s \in WidthSizes, w \in Widths, g \in Garbage : fifo_init(s, w, g)
WidthPush ==
    /\ Len(pushed) < WidthOps
    /\ \E v \in Items :
          \/ fifo_push_uint8(v)
          \/ fifo_push_uint16(v)
          \/ fifo_push_uint32(v)
          \/ /\ ~fifo_is_full(fifo_desc)
             /\ \/ fifo_push_uint8_nocheck(v)
                \/ fifo_push_uint16_nocheck(v)
                \/ fifo_push_uint32_nocheck(v)
WidthPull ==
    \/ fifo_pull_uint8
    \/ fifo_pull_uint16
    \/ fifo_pull_uint32
    \/ /\ ~fifo_is_empty(fifo_desc)
       /\ \/ fifo_pull_uint8_nocheck
          \/ fifo_pull_uint16_nocheck
          \/ fifo_pull_uint32_nocheck
NextWidth == WidthInit \/ WidthPush \/ WidthPull
SpecWidth == Init /\ [][NextWidth]_vars

\* One caller of every push and pull variant and of flush. One item value:
\* the indices do not depend on the values pushed.
IndexSizes == {Pow2(k) : k \in 0..IndexSizeLog}
IndexItems == {7}
IndexInit == \E s \in IndexSizes, w \in Widths, g \in Garbage : fifo_init(s, w, g)
IndexPush ==
    /\ Len(pushed) < IndexOps
    /\ \E v \in IndexItems :
          \/ fifo_push_uint8(v)
          \/ fifo_push_uint16(v)
          \/ fifo_push_uint32(v)
          \/ fifo_push_uint8_nocheck(v)
          \/ fifo_push_uint16_nocheck(v)
          \/ fifo_push_uint32_nocheck(v)
IndexPull ==
    /\ Len(pulled) < IndexOps
    /\ \/ fifo_pull_uint8
       \/ fifo_pull_uint16
       \/ fifo_pull_uint32
       \/ fifo_pull_uint8_nocheck
       \/ fifo_pull_uint16_nocheck
       \/ fifo_pull_uint32_nocheck
NextIndex == IndexInit \/ IndexPush \/ IndexPull \/ fifo_flush
SpecIndex == Init /\ [][NextIndex]_vars

---------------------------------------------------------------------------
\* Fill scenario: fifo_init with any uint8_t size, then, on a fresh buffer,
\* checked pushes of 1, 2, 3, ... until one fails, then checked pulls until
\* one fails.

InitAny == \E s \in 0..255, w \in Widths, g \in Garbage : fifo_init(s, w, g)

FillPush ==
    /\ op \in {"init", "push"} /\ ret = FIFO_OK
    /\ \/ fifo_push_uint8(Len(pushed) + 1)
       \/ fifo_push_uint16(Len(pushed) + 1)
       \/ fifo_push_uint32(Len(pushed) + 1)

FillPull ==
    /\ \/ op = "push" /\ ret = FIFO_ERROR_OVERFLOW
       \/ op = "pull" /\ ret = FIFO_OK
    /\ DoPull

NextFill == InitAny \/ FillPush \/ FillPull

SpecFill == Init /\ [][NextFill]_vars

\* Sweep of the indices: fifo_init with any uint8_t size, then pushes of
\* 1, 2, 3, ... while fewer than SlotDepth elements are held, pulls and peeks
\* while there is an element, until both indices have gone round
\* 0 .. 2*size - 1. The caller uses the checked variant at even indices and
\* the unchecked variant at odd ones.
SlotPush ==
    /\ inited /\ Len(pushed) < 2 * fifo_desc.size + SlotOps
    /\ fifo_get_used_size(fifo_desc) < SlotDepth /\ ~fifo_is_full(fifo_desc)
    /\ IF fifo_desc.write_index % 2 = 0
       THEN \/ fifo_push_uint8(Len(pushed) + 1)
            \/ fifo_push_uint16(Len(pushed) + 1)
            \/ fifo_push_uint32(Len(pushed) + 1)
       ELSE \/ fifo_push_uint8_nocheck(Len(pushed) + 1)
            \/ fifo_push_uint16_nocheck(Len(pushed) + 1)
            \/ fifo_push_uint32_nocheck(Len(pushed) + 1)
SlotPull ==
    /\ inited /\ ~fifo_is_empty(fifo_desc)
    /\ IF fifo_desc.read_index % 2 = 0
       THEN \/ fifo_pull_uint8
            \/ fifo_pull_uint16
            \/ fifo_pull_uint32
       ELSE \/ fifo_pull_uint8_nocheck
            \/ fifo_pull_uint16_nocheck
            \/ fifo_pull_uint32_nocheck
SlotPeek ==
    /\ inited /\ ~fifo_is_empty(fifo_desc) /\ op # "peek"
    /\ DoPeek
NextSlot == InitAny \/ SlotPush \/ SlotPull \/ SlotPeek
SpecSlot == Init /\ [][NextSlot]_vars

---------------------------------------------------------------------------
\* One producer and one consumer, interleaved at single loads and stores.
\* Every step below is one access to read_index, write_index or one byte of a
\* storage slot; the two contexts take their steps in any order, which covers
\* an interrupt that preempts the other side between any two accesses.

ConcSizes == {Pow2(k) : k \in 0..ConcSizeLog}

\* items of the interleaved runs: two values that differ in every byte of a
\* slot of any width, so that a half-written slot equals neither
ConcItems == {7, 16909060}

\* bytes of an element of width w, and byte k of a value
Bytes(w) == 0..((w \div 8) - 1)
Byte(v, k) == (v \div Pow2(8 * k)) % 256
SetByte(v, k, b) == v - Byte(v, k) * Pow2(8 * k) + b * Pow2(8 * k)

\* positions of a context inside fifo_flush
FlushPcs == {"flush", "flush_w", "flush_r"}

\* --- producer: fifo_push_uintN and fifo_push_uintN_nocheck

\* call of the checked push: the next thing is fifo_is_full
P_call(v) ==
    /\ inited /\ prod.pc = "idle"
    /\ Len(pushed) < ConcPushes
    /\ prod' = [idle EXCEPT !.pc = "check", !.v = v, !.ret = prod.ret]
    /\ raced' = (raced \/ cons.pc \in FlushPcs)
    /\ UNCHANGED <<fifo_desc, buffer, width, inited, arg, op, ret, item, val,
                   pushed, pulled, cons,
                   sampleVars>>

\* call of the unchecked push by a caller who knows there is room
P_call_nocheck(v) ==
    /\ inited /\ prod.pc = "idle"
    /\ Len(pushed) < ConcPushes
    /\ Len(pushed) - Len(pulled) < fifo_desc.size
    /\ prod' = [idle EXCEPT !.pc = "index", !.nocheck = TRUE, !.v = v,
                            !.ret = prod.ret]
    /\ raced' = (raced \/ cons.pc \in FlushPcs)
    /\ UNCHANGED <<fifo_desc, buffer, width, inited, arg, op, ret, item, val,
                   pushed, pulled, cons,
                   sampleVars>>

\* on a full buffer the push waits for the consumer and checks again
P_check_second_spin ==
    /\ prod.pc \in {"check_r", "check_w"}
    /\ LET w == IF prod.pc = "check_w" THEN fifo_desc.write_index ELSE prod.w
           r == IF prod.pc = "check_r" THEN fifo_desc.read_index ELSE prod.r
           seen == [fifo_desc EXCEPT !.write_index = w, !.read_index = r]
       IN  IF fifo_is_full(seen)
           THEN prod' = [prod EXCEPT !.pc = "check", !.w = 0, !.r = 0]
           ELSE prod' = [prod EXCEPT !.pc = "index", !.w = 0, !.r = 0]
    /\ UNCHANGED <<fifo_desc, buffer, width, inited, arg, op, ret, item, val, raced,
                   pushed, pulled, cons,
                   sampleVars>>

\* fifo_get_used_size loads write_index and read_index; C leaves the order of
\* the two loads open: this is the first of them
P_check_first ==
    /\ prod.pc = "check"
    /\ \/ prod' = [prod EXCEPT !.pc = "check_r", !.w = fifo_desc.write_index]
       \/ prod' = [prod EXCEPT !.pc = "check_w", !.r = fifo_desc.read_index]
    /\ UNCHANGED <<fifo_desc, buffer, width, inited, arg, op, ret, item, val, raced,
                   pushed, pulled, cons,
                   sampleVars>>

\* the second load, and the branch of fifo_push_uintN on fifo_is_full
P_check_second ==
    /\ prod.pc \in {"check_r", "check_w"}
    /\ LET w == IF prod.pc = "check_w" THEN fifo_desc.write_index ELSE prod.w
           r == IF prod.pc = "check_r" THEN fifo_desc.read_index ELSE prod.r
           seen == [fifo_desc EXCEPT !.write_index = w, !.read_index = r]
       IN  IF fifo_is_full(seen)
           THEN prod' = [idle EXCEPT !.ret = FIFO_ERROR_OVERFLOW]
           ELSE prod' = [prod EXCEPT !.pc = "index", !.w = 0, !.r = 0]
    /\ UNCHANGED <<fifo_desc, buffer, width, inited, arg, op, ret, item, val, raced,
                   pushed, pulled, cons,
                   sampleVars>>

\* the advanced write_index is stored before the slot is written
P_index_early ==
    /\ prod.pc = "index"
    /\ prod' = [prod EXCEPT !.pc = "store", !.index = fifo_desc.write_index]
    /\ fifo_desc' = [fifo_desc EXCEPT
                        !.write_index = Advance(fifo_desc, fifo_desc.write_index)]
    /\ UNCHANGED <<buffer, width, inited, arg, op, ret, item, val, raced,
                   pushed, pulled, cons,
                   sampleVars>>

\* write_index = fifo_desc->write_index
P_index ==
    /\ prod.pc = "index"
    /\ prod' = [prod EXCEPT !.pc = "store", !.index = fifo_desc.write_index]
    /\ UNCHANGED <<fifo_desc, buffer, width, inited, arg, op, ret, item, val, raced,
                   pushed, pulled, cons,
                   sampleVars>>

\* buffer[write_index & (mask >> 1)] = item, one byte of the slot at a time
P_store ==
    /\ prod.pc = "store"
    /\ \E k \in Bytes(width) \ prod.done :
          LET slot == Slot(fifo_desc, prod.index) IN
          /\ buffer' = [buffer EXCEPT
                           ![slot] = SetByte(@, k, Byte(Elem(width, prod.v), k))]
          /\ prod' = [prod EXCEPT
                         !.done = @ \cup {k},
                         !.pc = IF prod.done \cup {k} = Bytes(width)
                                THEN "publish" ELSE "store"]
    /\ UNCHANGED <<fifo_desc, width, inited, arg, op, ret, item, val, raced,
                   pushed, pulled, cons,
                   sampleVars>>

\* after the barrier: fifo_desc->write_index = (write_index + 1) & mask, return
P_publish ==
    /\ prod.pc = "publish"
    /\ fifo_desc' = [fifo_desc EXCEPT !.write_index = Advance(fifo_desc, prod.index)]
    /\ pushed' = Append(pushed, prod.v)
    /\ prod' = [idle EXCEPT !.ret = IF prod.nocheck THEN prod.ret ELSE FIFO_OK]
    /\ UNCHANGED <<buffer, width, inited, arg, op, ret, item, val, raced, pulled, cons,
                   sampleVars>>

\* --- consumer: fifo_pull_uintN and fifo_pull_uintN_nocheck

\* call of the checked pull: the next thing is fifo_is_empty
C_call ==
    /\ inited /\ cons.pc = "idle"
    /\ cons' = [idle EXCEPT !.pc = "check", !.ret = cons.ret]
    /\ raced' = (raced \/ prod.pc \in FlushPcs)
    /\ UNCHANGED <<fifo_desc, buffer, width, inited, arg, op, ret, item, val,
                   pushed, pulled, prod,
                   sampleVars>>

\* call of the unchecked pull by a caller who knows there is an element
C_call_nocheck ==
    /\ inited /\ cons.pc = "idle"
    /\ Len(pushed) - Len(pulled) > 0
    /\ cons' = [idle EXCEPT !.pc = "index", !.nocheck = TRUE, !.ret = cons.ret]
    /\ raced' = (raced \/ prod.pc \in FlushPcs)
    /\ UNCHANGED <<fifo_desc, buffer, width, inited, arg, op, ret, item, val,
                   pushed, pulled, prod,
                   sampleVars>>

\* fifo_is_empty loads write_index and read_index, in either order
C_check_first ==
    /\ cons.pc = "check"
    /\ \/ cons' = [cons EXCEPT !.pc = "check_r", !.w = fifo_desc.write_index]
       \/ cons' = [cons EXCEPT !.pc = "check_w", !.r = fifo_desc.read_index]
    /\ UNCHANGED <<fifo_desc, buffer, width, inited, arg, op, ret, item, val, raced,
                   pushed, pulled, prod,
                   sampleVars>>

\* the second load, and the branch of fifo_pull_uintN on fifo_is_empty
C_check_second ==
    /\ cons.pc \in {"check_r", "check_w"}
    /\ LET w == IF cons.pc = "check_w" THEN fifo_desc.write_index ELSE cons.w
           r == IF cons.pc = "check_r" THEN fifo_desc.read_index ELSE cons.r
           seen == [fifo_desc EXCEPT !.write_index = w, !.read_index = r]
       IN  IF fifo_is_empty(seen)
           THEN cons' = [idle EXCEPT !.ret = FIFO_ERROR_UNDERFLOW]
           ELSE cons' = [cons EXCEPT !.pc = "index", !.w = 0, !.r = 0]
    /\ UNCHANGED <<fifo_desc, buffer, width, inited, arg, op, ret, item, val, raced,
                   pushed, pulled, prod,
                   sampleVars>>

\* the advanced read_index is stored before the slot is read
C_index_early ==
    /\ cons.pc = "index"
    /\ cons' = [cons EXCEPT !.pc = "load", !.index = fifo_desc.read_index]
    /\ fifo_desc' = [fifo_desc EXCEPT
                        !.read_index = Advance(fifo_desc, fifo_desc.read_index)]
    /\ UNCHANGED <<buffer, width, inited, arg, op, ret, item, val, raced,
                   pushed, pulled, prod,
                   sampleVars>>

\* read_index = fifo_desc->read_index
C_index ==
    /\ cons.pc = "index"
    /\ cons' = [cons EXCEPT !.pc = "load", !.index = fifo_desc.read_index]
    /\ UNCHANGED <<fifo_desc, buffer, width, inited, arg, op, ret, item, val, raced,
                   pushed, pulled, prod,
                   sampleVars>>

\* *item = buffer[read_index & (mask >> 1)], one byte of the slot at a time
C_load ==
    /\ cons.pc = "load"
    /\ \E k \in Bytes(width) \ cons.done :
          LET slot == Slot(fifo_desc, cons.index) IN
          cons' = [cons EXCEPT
                      !.v = SetByte(@, k, Byte(buffer[slot], k)),
                      !.done = @ \cup {k},
                      !.pc = IF cons.done \cup {k} = Bytes(width)
                             THEN "publish" ELSE "load"]
    /\ UNCHANGED <<fifo_desc, buffer, width, inited, arg, op, ret, item, val, raced,
                   pushed, pulled, prod,
                   sampleVars>>

\* after the barrier: fifo_desc->read_index = (read_index + 1) & mask, return
C_publish ==
    /\ cons.pc = "publish"
    /\ fifo_desc' = [fifo_desc EXCEPT !.read_index = Advance(fifo_desc, cons.index)]
    /\ item' = cons.v
    /\ pulled' = Append(pulled, cons.v)
    /\ cons' = [idle EXCEPT !.ret = IF cons.nocheck THEN cons.ret ELSE FIFO_OK]
    /\ UNCHANGED <<buffer, width, inited, arg, op, ret, val, raced, pushed, prod,
                   sampleVars>>

\* --- fifo_flush, called by either context

Ctx(side) == IF side = "prod" THEN prod ELSE cons
Other(side) == IF side = "prod" THEN cons ELSE prod
SetCtx(side, c) ==
    IF side = "prod" THEN prod' = c /\ cons' = cons
                     ELSE cons' = c /\ prod' = prod

\* call of fifo_flush; raced records that the other side was not idle. Runs
\* are followed through their first contended flush and on from there
\* without further flushes.
F_call(side) ==
    /\ inited /\ Ctx(side).pc = "idle"
    /\ Len(pulled) < RaceOps /\ ~raced
    /\ SetCtx(side, [idle EXCEPT !.pc = "flush", !.ret = Ctx(side).ret])
    /\ raced' = (raced \/ Other(side).pc # "idle")
    /\ UNCHANGED <<fifo_desc, buffer, width, inited, arg, op, ret, item, val,
                   pushed, pulled,
                   sampleVars>>

\* the second store is left out
F_second_skip(side) ==
    /\ Ctx(side).pc \in {"flush_w", "flush_r"}
    /\ SetCtx(side, [idle EXCEPT !.ret = Ctx(side).ret])
    /\ UNCHANGED <<fifo_desc, buffer, width, inited, arg, op, ret, item, val, raced,
                   pushed, pulled,
                   sampleVars>>

\* read_index = write_index = 0 is two stores of 0 that C leaves unsequenced:
\* this is the first of them; the queued elements are discarded
F_first(side) ==
    /\ Ctx(side).pc = "flush"
    /\ \/ /\ fifo_desc' = [fifo_desc EXCEPT !.write_index = 0]
          /\ SetCtx(side, [Ctx(side) EXCEPT !.pc = "flush_r"])
       \/ /\ fifo_desc' = [fifo_desc EXCEPT !.read_index = 0]
          /\ SetCtx(side, [Ctx(side) EXCEPT !.pc = "flush_w"])
    /\ pushed' = SubSeq(pushed, 1, IF Len(pulled) < Len(pushed)
                                   THEN Len(pulled) ELSE Len(pushed))
    /\ UNCHANGED <<buffer, width, inited, arg, op, ret, item, val, raced, pulled,
                   sampleVars>>

\* the second store, and the return
F_second(side) ==
    /\ Ctx(side).pc \in {"flush_w", "flush_r"}
    /\ fifo_desc' = IF Ctx(side).pc = "flush_w"
                    THEN [fifo_desc EXCEPT !.write_index = 0]
                    ELSE [fifo_desc EXCEPT !.read_index = 0]
    /\ SetCtx(side, [idle EXCEPT !.ret = Ctx(side).ret])
    /\ UNCHANGED <<buffer, width, inited, arg, op, ret, item, val, raced,
                   pushed, pulled,
                   sampleVars>>

\* --- the occupancy queries and peek, called by either context

\* call of fifo_get_used_size, fifo_get_free_size, fifo_is_empty or
\* fifo_is_full (n is 0..3 in this order)
Q_call(side, n) ==
    /\ inited /\ Ctx(side).pc = "idle"
    /\ SetCtx(side, [idle EXCEPT !.pc = "query", !.v = n, !.ret = Ctx(side).ret])
    /\ UNCHANGED <<fifo_desc, buffer, width, inited, arg, op, ret, item, val, raced,
                   pushed, pulled,
                   sampleVars>>

\* the first of the two index loads of fifo_get_used_size
Q_first(side) ==
    /\ Ctx(side).pc = "query"
    /\ \/ SetCtx(side, [Ctx(side) EXCEPT !.pc = "query_r", !.w = fifo_desc.write_index])
       \/ SetCtx(side, [Ctx(side) EXCEPT !.pc = "query_w", !.r = fifo_desc.read_index])
    /\ UNCHANGED <<fifo_desc, buffer, width, inited, arg, op, ret, item, val, raced,
                   pushed, pulled,
                   sampleVars>>

\* the second load, and the return of the result
Q_second(side) ==
    /\ Ctx(side).pc \in {"query_r", "query_w"}
    /\ LET c == Ctx(side)
           w == IF c.pc = "query_w" THEN fifo_desc.write_index ELSE c.w
           r == IF c.pc = "query_r" THEN fifo_desc.read_index ELSE c.r
           seen == [fifo_desc EXCEPT !.write_index = w, !.read_index = r]
       IN  val' = CASE c.v = 0 -> fifo_get_used_size(seen)
                    [] c.v = 1 -> fifo_get_free_size(seen)
                    [] c.v = 2 -> B(fifo_is_empty(seen))
                    [] OTHER -> B(fifo_is_full(seen))
    /\ SetCtx(side, [idle EXCEPT !.ret = Ctx(side).ret])
    /\ UNCHANGED <<fifo_desc, buffer, width, inited, arg, op, ret, item, raced,
                   pushed, pulled,
                   sampleVars>>

\* call of fifo_peek_uintN
K_call(side) ==
    /\ inited /\ Ctx(side).pc = "idle"
    /\ SetCtx(side, [idle EXCEPT !.pc = "peek", !.ret = Ctx(side).ret])
    /\ UNCHANGED <<fifo_desc, buffer, width, inited, arg, op, ret, item, val, raced,
                   pushed, pulled,
                   sampleVars>>

\* the load of read_index
K_index(side) ==
    /\ Ctx(side).pc = "peek"
    /\ SetCtx(side, [Ctx(side) EXCEPT !.pc = "peek_load", !.index = fifo_desc.read_index])
    /\ UNCHANGED <<fifo_desc, buffer, width, inited, arg, op, ret, item, val, raced,
                   pushed, pulled,
                   sampleVars>>

\* the load of buffer[read_index & (mask >> 1)], and the return of the value
K_load(side) ==
    /\ Ctx(side).pc = "peek_load"
    /\ val' = buffer[Slot(fifo_desc, Ctx(side).index)]
    /\ SetCtx(side, [idle EXCEPT !.ret = Ctx(side).ret])
    /\ UNCHANGED <<fifo_desc, buffer, width, inited, arg, op, ret, item, raced,
                   pushed, pulled,
                   sampleVars>>

ConcInit == \E s \in ConcSizes, w \in Widths, g \in Garbage : fifo_init(s, w, g)

Producer ==
    \/ \E v \in ConcItems : P_call(v)
    \/ \E v \in ConcItems : P_call_nocheck(v)
    \/ P_check_first
    \/ P_check_second
    \/ P_index
    \/ P_store
    \/ P_publish

Consumer ==
    \/ C_call
    \/ C_call_nocheck
    \/ C_check_first
    \/ C_check_second
    \/ C_index
    \/ C_load
    \/ C_publish

NextConc == ConcInit \/ Producer \/ Consumer

SpecConc == Init /\ [][NextConc]_vars

\* the two contexts, each of which may also call fifo_flush at any time
RaceSizes == {Pow2(k) : k \in 0..RaceSizeLog}
\* the storage block starts with one content that is no item
RaceGarbage == {255}
RaceInit == \E s \in RaceSizes, g \in RaceGarbage : fifo_init(s, 8, g)
RaceProducer == Len(pushed) < RacePushes /\ Producer
P_flush == F_call("prod") \/ F_first("prod") \/ F_second("prod")
C_flush == F_call("cons") \/ F_first("cons") \/ F_second("cons")
NextRace == RaceInit \/ RaceProducer \/ Consumer \/ P_flush \/ C_flush
SpecRace == Init /\ [][NextRace]_vars

\* Every operation of the module called by two contexts, each of which is
\* scheduled fairly once it has started an operation. Calls are not subject
\* to fairness: a context may stay idle for ever. The producer asks for the
\* free size and for fullness, the consumer for the used size and for
\* emptiness, and the consumer peeks.
LiveSizes == {Pow2(k) : k \in 0..LiveSizeLog}
LiveInit == \E s \in LiveSizes : fifo_init(s, 8, 255)
\* one item value: which value is pushed has no bearing on the steps taken
LiveItems == {7}
LiveCalls ==
    \/ /\ Len(pushed) < LivePushes
       /\ \E v \in LiveItems : P_call(v) \/ P_call_nocheck(v)
    \/ C_call \/ C_call_nocheck
    \/ F_call("prod") \/ F_call("cons")
    \/ \E n \in {1, 3} : Q_call("prod", n)
    \/ \E n \in {0, 2} : Q_call("cons", n)
    \/ K_call("cons")
P_run ==
    \/ P_check_first \/ P_check_second \/ P_index \/ P_store \/ P_publish
    \/ F_first("prod") \/ F_second("prod")
    \/ Q_first("prod") \/ Q_second("prod")
C_run ==
    \/ C_check_first \/ C_check_second \/ C_index \/ C_load \/ C_publish
    \/ F_first("cons") \/ F_second("cons")
    \/ Q_first("cons") \/ Q_second("cons")
    \/ K_index("cons") \/ K_load("cons")
NextLive == LiveInit \/ LiveCalls \/ P_run \/ C_run
SpecLive == Init /\ [][NextLive]_vars /\ WF_vars(P_run) /\ WF_vars(C_run)

---------------------------------------------------------------------------
\* main.c: HFSampleLoop, the overflow interrupt callback of timer TCC1. One
\* invocation runs to its end before the next one starts; main() touches
\* none of its variables. result is the constant 0 (the ADC read is not
\* written yet), so every element of buf keeps its initial 0 and only the
\* element accessed is recorded.

\* the wrap of writePos tests > instead of >=
HFSampleLoop_late ==
    /\ calls < SampleCalls
    /\ calls' = calls + 1
    /\ cell' = <<curChannel, writePos>>
    /\ IF curChannel + 1 = CHANNELS
       THEN /\ curChannel' = 0
            /\ IF overSamplePos + 1 = OVERSAMPLING
               THEN /\ overSamplePos' = 0
                    /\ railFull' = TRUE
                    /\ railSets' = railSets + 1
                    /\ writePos' = IF writePos + 1 > MAXBUFFER
                                   THEN 0 ELSE writePos + 1
               ELSE /\ overSamplePos' = overSamplePos + 1
                    /\ UNCHANGED <<railFull, railSets, writePos>>
       ELSE /\ curChannel' = curChannel + 1
            /\ UNCHANGED <<overSamplePos, railFull, railSets, writePos>>
    /\ UNCHANGED fifoVars

HFSampleLoop ==
    /\ calls < SampleCalls
    /\ calls' = calls + 1
    \* buf[curChannel][writePos] = result, or += result
    /\ cell' = <<curChannel, writePos>>
    \* curChannel++; if (curChannel == CHANNELS) ...
    /\ IF curChannel + 1 = CHANNELS
       THEN /\ curChannel' = 0
            \* overSamplePos++; if (overSamplePos == OVERSAMPLING) ...
            /\ IF overSamplePos + 1 = OVERSAMPLING
               THEN /\ overSamplePos' = 0
                    /\ railFull' = TRUE
                    /\ railSets' = railSets + 1
                    \* writePos++; if (writePos >= MAXBUFFER) writePos = 0
                    /\ writePos' = IF writePos + 1 >= MAXBUFFER
                                   THEN 0 ELSE writePos + 1
               ELSE /\ overSamplePos' = overSamplePos + 1
                    /\ UNCHANGED <<railFull, railSets, writePos>>
       ELSE /\ curChannel' = curChannel + 1
            /\ UNCHANGED <<overSamplePos, railFull, railSets, writePos>>
    /\ UNCHANGED fifoVars

NextSample == HFSampleLoop
SpecSample == Init /\ [][NextSample]_vars

---------------------------------------------------------------------------
\* The quantities the properties below are stated in, without the code's masks.

\* the occupancy by definition: (write_index - read_index) mod 2*size
Occupancy(d) == (d.write_index - d.read_index) % (2 * d.size)

\* number of elements held: accepted and neither delivered nor discarded
Held == Len(pushed) - Len(pulled)

\* the accepted values as elements of the buffer's width
Stored == [i \in 1..Len(pushed) |-> Elem(width, pushed[i])]

\* the slots of the logical range [read_index, write_index), oldest first
Content ==
    [k \in 1..Occupancy(fifo_desc) |-> buffer[(fifo_desc.read_index + k - 1) % fifo_desc.size]]

Wrapped == inited /\ fifo_desc.write_index < fifo_desc.read_index

\* the slots that hold an element not yet pulled
LiveSlots ==
    {(fifo_desc.read_index + k) % fifo_desc.size :
        k \in 0..(Occupancy(fifo_desc) - 1)}

---------------------------------------------------------------------------
\* C1: after any sequence of checked pushes and pulls, used + free = size,
\* 0 <= used <= size and used = (write_index - read_index) mod 2*size, which
\* is the number of elements accepted and not yet delivered; also once the
\* indices have wrapped and write_index is numerically below read_index.
C1_UsedPlusFree ==
    inited =>
        /\ fifo_get_used_size(fifo_desc) + fifo_get_free_size(fifo_desc) = fifo_desc.size
        /\ fifo_get_used_size(fifo_desc) \in 0..fifo_desc.size
        /\ fifo_get_used_size(fifo_desc) = Occupancy(fifo_desc)
        /\ fifo_get_used_size(fifo_desc) = Held

C1_Witness ==
    /\ Wrapped
    /\ fifo_get_used_size(fifo_desc) = fifo_desc.size
    /\ fifo_desc.size > 1

---------------------------------------------------------------------------
\* C2: the values delivered by successful pulls are a prefix of the values
\* accepted by successful pushes, as elements of the buffer's width (the very
\* values when they fit that width), and the queue holds the rest in order.
C2_FifoOrder ==
    inited =>
        /\ Len(pulled) <= Len(pushed)
        /\ pulled = SubSeq(Stored, 1, Len(pulled))
        /\ Content = SubSeq(Stored, Len(pulled) + 1, Len(pushed))
        /\ (\A i \in 1..Len(pushed) : Elem(width, pushed[i]) = pushed[i])
              => pulled = SubSeq(pushed, 1, Len(pulled))

C2_Witness ==
    /\ Wrapped
    /\ Len(pulled) >= 3
    /\ pulled[1] # pulled[2]
    /\ Len(pushed) > Len(pulled) + 1
    /\ \A i \in 1..Len(pushed) : Elem(width, pushed[i]) = pushed[i]
    /\ pulled = SubSeq(pushed, 1, Len(pulled))

---------------------------------------------------------------------------
\* C4: with one producer and one consumer interleaved at single loads and
\* stores and no lock, every value a pull delivers is the oldest one pushed
\* and not yet pulled, no push stores into a slot whose element has not been
\* pulled, and 0 <= (write_index - read_index) mod 2*size <= size throughout.
C4_LockFree ==
    inited =>
        /\ Len(pulled) <= Len(pushed)
        /\ pulled = SubSeq(Stored, 1, Len(pulled))
        /\ cons.pc = "publish" => cons.v = Stored[Len(pulled) + 1]
        /\ prod.pc = "store" => Slot(fifo_desc, prod.index) \notin LiveSlots
        /\ Occupancy(fifo_desc) \in 0..fifo_desc.size
        /\ Occupancy(fifo_desc) = Held

\* both sides in the middle of their slot accesses, on the second lap
C4_Witness ==
    /\ prod.pc = "store" /\ prod.done # {}
    /\ cons.pc = "load" /\ cons.done # {}
    /\ ~prod.nocheck /\ ~cons.nocheck
    /\ prod.index >= fifo_desc.size
    /\ fifo_desc.size > 1
    /\ Len(pulled) >= 1

---------------------------------------------------------------------------
\* C5: in every push the slot is stored before the advanced write_index is,
\* in every pull the slot is loaded before the advanced read_index is stored;
\* so every slot of the logical range [read_index, write_index) in shared
\* memory holds its completely written pushed value, in every state.
C5_Publication ==
    [][/\ fifo_desc'.write_index # fifo_desc.write_index =>
             /\ prod.done = Bytes(width)
             /\ buffer[fifo_desc.write_index % fifo_desc.size] = Elem(width, prod.v)
             /\ buffer' = buffer
       /\ fifo_desc'.read_index # fifo_desc.read_index =>
             /\ cons.done = Bytes(width)
             /\ cons.v = buffer[fifo_desc.read_index % fifo_desc.size]
       /\ inited' => Content' = SubSeq(Stored', Len(pulled') + 1, Len(pushed'))
    ]_vars

\* an unchecked push half-way through its slot while the queue holds elements
C5_Witness ==
    /\ prod.pc = "store" /\ prod.nocheck
    /\ prod.done # {} /\ prod.done # Bytes(width)
    /\ buffer[Slot(fifo_desc, prod.index)] \notin {Elem(width, v) : v \in ConcItems}
    /\ cons.pc = "load"
    /\ Occupancy(fifo_desc) > 0
    /\ Len(pulled) >= 1

---------------------------------------------------------------------------
\* C6: a checked push on a full buffer returns FIFO_ERROR_OVERFLOW and changes
\* neither the descriptor nor the storage; on a buffer that is not full it
\* returns FIFO_OK, stores the item at slot write_index mod size and sets
\* write_index to (write_index + 1) mod 2*size.
C6_PushContract ==
    [][op' = "push" =>
        IF Occupancy(fifo_desc) = fifo_desc.size
        THEN /\ ret' = FIFO_ERROR_OVERFLOW
             /\ fifo_desc' = fifo_desc
             /\ buffer' = buffer
        ELSE /\ ret' = FIFO_OK
             /\ Len(pushed') = Len(pushed) + 1
             /\ buffer' = [buffer EXCEPT
                    ![fifo_desc.write_index % fifo_desc.size] =
                        Elem(width, pushed'[Len(pushed')])]
             /\ fifo_desc' = [fifo_desc EXCEPT
                    !.write_index = (fifo_desc.write_index + 1) % (2 * fifo_desc.size)]
    ]_vars

C6_Witness ==
    /\ op = "push" /\ ret = FIFO_ERROR_OVERFLOW
    /\ Wrapped
    /\ Len(pushed) > fifo_desc.size

---------------------------------------------------------------------------
\* C7: a checked pull on an empty buffer returns FIFO_ERROR_UNDERFLOW, does not
\* write *item and changes neither the descriptor nor the storage; on a
\* non-empty buffer it returns FIFO_OK, delivers the element at slot
\* read_index mod size and sets read_index to (read_index + 1) mod 2*size.
C7_PullContract ==
    [][op' = "pull" =>
        IF Occupancy(fifo_desc) = 0
        THEN /\ ret' = FIFO_ERROR_UNDERFLOW
             /\ item' = item
             /\ fifo_desc' = fifo_desc
             /\ buffer' = buffer
        ELSE /\ ret' = FIFO_OK
             /\ item' = buffer[fifo_desc.read_index % fifo_desc.size]
             /\ buffer' = buffer
             /\ fifo_desc' = [fifo_desc EXCEPT
                    !.read_index = (fifo_desc.read_index + 1) % (2 * fifo_desc.size)]
    ]_vars

C7_Witness ==
    /\ op = "pull" /\ ret = FIFO_ERROR_UNDERFLOW
    /\ fifo_desc.read_index > fifo_desc.size
    /\ item # buffer[fifo_desc.read_index % fifo_desc.size]

---------------------------------------------------------------------------
\* C8: a checked operation either succeeds and changes the occupancy by
\* exactly one (the push appends its element to the queue, the pull removes
\* and delivers the oldest one) or fails and leaves descriptor and storage
\* unchanged; nothing accepted is dropped, nothing delivered was not pushed.
C8_ExactlyOnce ==
    [][(op' \in {"push", "pull"}) =>
        \/ /\ op' = "push" /\ ret' = FIFO_OK
           /\ fifo_get_used_size(fifo_desc') = fifo_get_used_size(fifo_desc) + 1
           /\ Content' = Append(Content, Elem(width, pushed'[Len(pushed')]))
        \/ /\ op' = "pull" /\ ret' = FIFO_OK
           /\ fifo_get_used_size(fifo_desc') = fifo_get_used_size(fifo_desc) - 1
           /\ Content = <<item'>> \o Content'
        \/ /\ ret' # FIFO_OK
           /\ fifo_desc' = fifo_desc
           /\ buffer' = buffer
    ]_vars

C8_Witness ==
    /\ op = "pull" /\ ret = FIFO_OK
    /\ Wrapped
    /\ fifo_get_used_size(fifo_desc) = fifo_desc.size - 1
    /\ fifo_desc.size > 1

---------------------------------------------------------------------------
\* C9: after init, checked pushes, checked pulls and flushes, fifo_is_empty
\* holds iff read_index = write_index iff no element is held, fifo_is_full
\* holds iff size elements are held, and the two never hold together.
C9_EmptyFull ==
    inited =>
        /\ fifo_is_empty(fifo_desc) <=> (fifo_desc.read_index = fifo_desc.write_index)
        /\ fifo_is_empty(fifo_desc) <=> (fifo_get_used_size(fifo_desc) = 0)
        /\ fifo_is_empty(fifo_desc) <=> (Held = 0)
        /\ fifo_is_full(fifo_desc) <=> (fifo_get_used_size(fifo_desc) = fifo_desc.size)
        /\ fifo_is_full(fifo_desc) <=> (Held = fifo_desc.size)
        /\ ~(fifo_is_empty(fifo_desc) /\ fifo_is_full(fifo_desc))

\* full again after a flush has reset indices that had advanced
C9_Witness ==
    /\ inited
    /\ fifo_is_full(fifo_desc)
    /\ ~fifo_is_empty(fifo_desc)
    /\ fifo_desc.read_index = 0
    /\ Len(pulled) % (2 * fifo_desc.size) # 0

---------------------------------------------------------------------------
\* C3: a fresh buffer of any valid capacity N accepts exactly N checked
\* pushes (fifo_is_full false before each, true after the N-th), the next
\* push returns FIFO_ERROR_OVERFLOW, then exactly N checked pulls return the
\* N elements in order (fifo_is_empty true only after the N-th) and the next
\* pull returns FIFO_ERROR_UNDERFLOW; also for N = 128 with mask = 255.
C3_FullFill ==
    inited =>
        /\ op = "init" => ~fifo_is_full(fifo_desc) /\ fifo_is_empty(fifo_desc)
        /\ (op = "push" /\ ret = FIFO_OK) =>
              /\ Len(pushed) <= fifo_desc.size
              /\ fifo_is_full(fifo_desc) <=> (Len(pushed) = fifo_desc.size)
        /\ (op = "push" /\ ret = FIFO_ERROR_OVERFLOW) =>
              /\ Len(pushed) = fifo_desc.size
              /\ fifo_is_full(fifo_desc)
        /\ (op = "pull" /\ ret = FIFO_OK) =>
              /\ Len(pushed) = fifo_desc.size
              /\ pulled = SubSeq(pushed, 1, Len(pulled))
              /\ item = Len(pulled)
              /\ fifo_is_empty(fifo_desc) <=> (Len(pulled) = fifo_desc.size)
        /\ (op = "pull" /\ ret = FIFO_ERROR_UNDERFLOW) =>
              /\ Len(pulled) = fifo_desc.size
              /\ pulled = pushed
              /\ fifo_is_empty(fifo_desc)

C3_Witness ==
    /\ inited
    /\ fifo_desc.size = FIFO_MAX_SIZE /\ fifo_desc.mask = 255
    /\ op = "pull" /\ ret = FIFO_ERROR_UNDERFLOW
    /\ Len(pulled) = FIFO_MAX_SIZE

---------------------------------------------------------------------------
\* C10: fifo_init returns FIFO_OK for the sizes 1, 2, 4, ..., 128 and
\* FIFO_ERROR for every other size: 0, every size that is no power of two and
\* every size above 128.
C10_InitSizes ==
    op = "init" =>
        /\ (arg \in {1, 2, 4, 8, 16, 32, 64, 128}) => (ret = FIFO_OK /\ inited)
        /\ (arg \notin {1, 2, 4, 8, 16, 32, 64, 128}) => (ret = FIFO_ERROR /\ ~inited)

\* a rejected size after an earlier rejected one
C10_Witness ==
    /\ op = "init" /\ ret = FIFO_ERROR /\ ~inited
    /\ arg > FIFO_MAX_SIZE

---------------------------------------------------------------------------
\* C11: after a successful fifo_init, read_index = write_index = 0, size is
\* the requested size, mask = 2*size - 1 (it fits the 8-bit field), and the
\* buffer is empty, not full, with free size = size.
C11_AfterInit ==
    (op = "init" /\ ret = FIFO_OK) =>
        /\ fifo_desc.read_index = 0
        /\ fifo_desc.write_index = 0
        /\ fifo_desc.size = arg
        /\ fifo_desc.mask = 2 * arg - 1
        /\ fifo_desc.mask \in 0..255
        /\ fifo_is_empty(fifo_desc)
        /\ ~fifo_is_full(fifo_desc)
        /\ fifo_get_used_size(fifo_desc) = 0
        /\ fifo_get_free_size(fifo_desc) = arg

C11_Witness ==
    /\ op = "init" /\ ret = FIFO_OK
    /\ arg = FIFO_MAX_SIZE
    /\ fifo_desc.mask = 255
    /\ fifo_get_free_size(fifo_desc) = FIFO_MAX_SIZE

---------------------------------------------------------------------------
\* C12: fifo_flush, with no push or pull in flight, sets read_index and
\* write_index to 0 whatever the occupancy was: afterwards the buffer is
\* empty with used size 0, size, mask and storage are as before, and the
\* buffer again accepts exactly size checked pushes.
C12_Flush ==
    [][/\ op' = "flush" =>
             /\ fifo_desc'.read_index = 0
             /\ fifo_desc'.write_index = 0
             /\ fifo_is_empty(fifo_desc')
             /\ fifo_get_used_size(fifo_desc') = 0
             /\ fifo_get_free_size(fifo_desc') = fifo_desc.size
             /\ fifo_desc'.size = fifo_desc.size
             /\ fifo_desc'.mask = fifo_desc.mask
             /\ buffer' = buffer
       /\ op' = "push" => (ret' = FIFO_OK <=> Held < fifo_desc.size)
    ]_vars

\* flushed with advanced indices, then filled up and one push refused
C12_Witness ==
    /\ op = "push" /\ ret = FIFO_ERROR_OVERFLOW
    /\ fifo_desc.read_index = 0
    /\ fifo_desc.write_index = fifo_desc.size
    /\ fifo_desc.size > 1
    /\ Len(pulled) % (2 * fifo_desc.size) # 0
    /\ Held = fifo_desc.size

---------------------------------------------------------------------------
\* C13: peek on a non-empty buffer returns the element at slot
\* read_index mod size, the oldest one held, leaves indices and storage
\* unchanged so the element stays, and the pull that follows returns the same
\* value; also for capacity 1 (push 7, pull 7, push 9, peek 9, pull 9).
C13_Peek ==
    [][/\ (op' = "peek" /\ Occupancy(fifo_desc) > 0) =>
             /\ val' = buffer[fifo_desc.read_index % fifo_desc.size]
             /\ val' = Stored[Len(pulled) + 1]
             /\ fifo_desc' = fifo_desc
             /\ buffer' = buffer
             /\ Held' = Held
       /\ (op = "peek" /\ op' = "pull" /\ ret' = FIFO_OK) => item' = val
    ]_vars

\* capacity 1 after push 7, pull 7, push 9, peek
C13_Witness ==
    /\ fifo_desc.size = 1
    /\ op = "peek" /\ val = 9
    /\ pushed = <<7, 9>> /\ pulled = <<7>>
    /\ fifo_is_full(fifo_desc)

---------------------------------------------------------------------------
\* C14: fifo_get_used_size, fifo_get_free_size, fifo_is_empty, fifo_is_full
\* and peek change no field of the descriptor and no slot, and their result
\* is determined by that unchanged state, so a call repeated with no push,
\* pull or flush in between returns the same result.
QueryOps == {"get_used_size", "get_free_size", "is_empty", "is_full", "peek"}

Answer(name) ==
    CASE name = "get_used_size" -> Held
      [] name = "get_free_size" -> fifo_desc.size - Held
      [] name = "is_empty" -> B(Held = 0)
      [] name = "is_full" -> B(Held = fifo_desc.size)
      [] name = "peek" -> buffer[fifo_desc.read_index % fifo_desc.size]

C14_QueryPurity ==
    [][op' \in QueryOps =>
          /\ fifo_desc' = fifo_desc
          /\ buffer' = buffer
          /\ UNCHANGED <<width, inited, ret, item, pushed, pulled,
                   sampleVars>>
          /\ val' = Answer(op')
          /\ op = op' => val' = val
    ]_vars

C14_Witness ==
    /\ op = "get_free_size" /\ val = 0
    /\ Wrapped
    /\ fifo_desc.size > 1

---------------------------------------------------------------------------
\* C15: every push variant writes only write_index and the slot at
\* write_index mod size, leaving read_index, size and mask unchanged; every
\* pull variant writes only read_index, leaving write_index, size, mask and
\* every slot unchanged.
C15_SingleWriter ==
    [][/\ op' \in {"push", "push_nocheck"} =>
             /\ fifo_desc'.read_index = fifo_desc.read_index
             /\ fifo_desc'.size = fifo_desc.size
             /\ fifo_desc'.mask = fifo_desc.mask
             /\ DOMAIN buffer' = DOMAIN buffer
             /\ \A i \in DOMAIN buffer :
                   i # fifo_desc.write_index % fifo_desc.size => buffer'[i] = buffer[i]
       /\ op' \in {"pull", "pull_nocheck"} =>
             /\ fifo_desc'.write_index = fifo_desc.write_index
             /\ fifo_desc'.size = fifo_desc.size
             /\ fifo_desc'.mask = fifo_desc.mask
             /\ buffer' = buffer
    ]_vars

\* an unchecked pull has moved read_index past write_index
C15_Witness ==
    /\ op = "pull_nocheck"
    /\ Occupancy(fifo_desc) > fifo_desc.size
    /\ Len(pushed) > 0
    /\ val # buffer[0]

---------------------------------------------------------------------------
\* C17: when the buffer is not full, the unchecked push leaves the same
\* descriptor and storage as the checked push, which returns FIFO_OK; when it
\* is not empty, the unchecked pull returns the same element and leaves the
\* same state as the checked pull: both are the one function of the state
\* before and the item.
C17_Equivalence ==
    [][/\ (op' \in {"push", "push_nocheck"}
             /\ Occupancy(fifo_desc) # fifo_desc.size) =>
             /\ pushed' = Append(pushed, pushed'[Len(pushed')])
             /\ buffer' = [buffer EXCEPT
                    ![fifo_desc.write_index % fifo_desc.size] =
                        Elem(width, pushed'[Len(pushed')])]
             /\ fifo_desc' = [fifo_desc EXCEPT
                    !.write_index = (fifo_desc.write_index + 1) % (2 * fifo_desc.size)]
             /\ op' = "push" => ret' = FIFO_OK
       /\ (op' \in {"pull", "pull_nocheck"}
             /\ fifo_desc.read_index # fifo_desc.write_index) =>
             /\ (IF op' = "pull" THEN item' ELSE val')
                    = buffer[fifo_desc.read_index % fifo_desc.size]
             /\ buffer' = buffer
             /\ fifo_desc' = [fifo_desc EXCEPT
                    !.read_index = (fifo_desc.read_index + 1) % (2 * fifo_desc.size)]
             /\ op' = "pull" => ret' = FIFO_OK
    ]_vars

\* an unchecked push used within its contract, on wrapped indices
C17_Witness ==
    /\ op = "push_nocheck"
    /\ Wrapped
    /\ Occupancy(fifo_desc) = Held
    /\ Held = fifo_desc.size
    /\ Content = SubSeq(Stored, Len(pulled) + 1, Len(pushed))

---------------------------------------------------------------------------
\* C18: the unchecked variants report nothing when misused. An unchecked
\* push on a full buffer overwrites the oldest unread element and makes the
\* used size (size + 1) mod 2*size; an unchecked pull on an empty buffer
\* returns a slot that holds no unread element and makes the used size
\* 2*size - 1. For size >= 2 both are outside [0, size]; for size 1 the full
\* buffer then reports empty and the empty buffer reports full.
C18_Misuse ==
    [][/\ (op' = "push_nocheck" /\ Occupancy(fifo_desc) = fifo_desc.size) =>
             /\ ret' = ret
             /\ fifo_desc.write_index % fifo_desc.size
                    = fifo_desc.read_index % fifo_desc.size
             /\ buffer' = [buffer EXCEPT
                    ![fifo_desc.read_index % fifo_desc.size] =
                        Elem(width, pushed'[Len(pushed')])]
             /\ fifo_get_used_size(fifo_desc') = (fifo_desc.size + 1) % (2 * fifo_desc.size)
             /\ fifo_desc.size >= 2 =>
                    fifo_get_used_size(fifo_desc') \notin 0..fifo_desc.size
             /\ fifo_desc.size = 1 => fifo_is_empty(fifo_desc')
       /\ (op' = "pull_nocheck" /\ fifo_desc.read_index = fifo_desc.write_index) =>
             /\ ret' = ret
             /\ LiveSlots = {}
             /\ val' = buffer[fifo_desc.read_index % fifo_desc.size]
             /\ fifo_get_used_size(fifo_desc') = 2 * fifo_desc.size - 1
             /\ fifo_desc.size >= 2 =>
                    fifo_get_used_size(fifo_desc') \notin 0..fifo_desc.size
             /\ fifo_desc.size = 1 => fifo_is_full(fifo_desc')
    ]_vars

\* a full buffer after one unchecked push too many
C18_Witness ==
    /\ op = "push_nocheck"
    /\ fifo_desc.size >= 2
    /\ fifo_get_used_size(fifo_desc) = fifo_desc.size + 1
    /\ Len(pushed) = fifo_desc.size + 1 /\ Len(pulled) = 0
    /\ buffer[0] = Elem(width, pushed[Len(pushed)])

---------------------------------------------------------------------------
\* C16: flush is unsafe under concurrency. As long as every fifo_flush has run
\* from its call to its second index store while the other context was idle,
\* the states between operations of the flushing side are safe: occupancy
\* (write_index - read_index) mod 2*size is within [0, size] and equals the
\* number of elements held, and every pull has returned the oldest pending
\* element. When a flush overlaps an operation of the other side, a state
\* with occupancy above size and a pull of a discarded or never pushed
\* element are reachable (C16_Witness).
C16_FlushRace ==
    (inited /\ ~raced /\ prod.pc \notin {"flush_w", "flush_r"}
            /\ cons.pc \notin {"flush_w", "flush_r"}) =>
        /\ Len(pulled) <= Len(pushed)
        /\ pulled = SubSeq(Stored, 1, Len(pulled))
        /\ cons.pc = "publish" => cons.v = Stored[Len(pulled) + 1]
        /\ Occupancy(fifo_desc) \in 0..fifo_desc.size
        /\ Occupancy(fifo_desc) = Held

\* after a flush that overlapped a pull: both sides idle again, occupancy
\* above size, and the pull has returned a value that was never pushed
C16_Witness ==
    /\ raced
    /\ prod.pc = "idle" /\ cons.pc = "idle"
    /\ Occupancy(fifo_desc) > fifo_desc.size
    /\ Len(pulled) > Len(pushed)
    /\ pulled[Len(pulled)] \in Garbage

---------------------------------------------------------------------------
\* C19: no operation blocks. A context inside an operation always has its
\* next load or store enabled, whatever the state left by the other side;
\* under fair scheduling of the context every operation it has started
\* returns, and the status it returns is FIFO_OK or FIFO_ERROR_OVERFLOW for
\* the producer, FIFO_OK or FIFO_ERROR_UNDERFLOW for the consumer.
C19_NonBlocking ==
    /\ [](prod.pc # "idle" => ENABLED P_run)
    /\ [](cons.pc # "idle" => ENABLED C_run)
    /\ (prod.pc # "idle") ~> (prod.pc = "idle")
    /\ (cons.pc # "idle") ~> (cons.pc = "idle")
    /\ [](prod.ret \in {FIFO_OK, FIFO_ERROR_OVERFLOW})
    /\ [](cons.ret \in {FIFO_OK, FIFO_ERROR_UNDERFLOW})

\* a checked push that finds the buffer full while the consumer is inside
\* a pull that it has not finished
C19_Witness ==
    /\ prod.pc \in {"check_r", "check_w"}
    /\ Occupancy(fifo_desc) = fifo_desc.size
    /\ cons.pc = "load"
    /\ ~raced

---------------------------------------------------------------------------
\* C20: the status returned by a checked push is FIFO_OK when no error
\* occurred and FIFO_ERROR_UNDERFLOW when the FIFO was empty, as the comments
\* above fifo_push_uint8, fifo_push_uint16 and fifo_push_uint32 say. The
\* code returns FIFO_ERROR_OVERFLOW from a push on a full buffer, and FIFO_OK
\* from a push on an empty one.
C20_DocStatus ==
    op = "push" => ret \in {FIFO_OK, FIFO_ERROR_UNDERFLOW}

---------------------------------------------------------------------------
\* C21: after a successful init, whatever pushes, pulls (checked or
\* unchecked) and flushes follow, read_index and write_index stay within
\* 0 .. 2*size - 1; a successful push advances write_index by exactly one
\* modulo 2*size and leaves read_index alone, a successful pull does so for
\* read_index, and a rejected operation moves neither.
C21_IndexRange ==
    [][/\ inited' =>
             /\ fifo_desc'.read_index \in 0..(2 * fifo_desc'.size - 1)
             /\ fifo_desc'.write_index \in 0..(2 * fifo_desc'.size - 1)
       /\ (op' = "push_nocheck" \/ (op' = "push" /\ ret' = FIFO_OK)) =>
             /\ fifo_desc'.write_index =
                    IF fifo_desc.write_index = 2 * fifo_desc.size - 1
                    THEN 0 ELSE fifo_desc.write_index + 1
             /\ fifo_desc'.read_index = fifo_desc.read_index
       /\ (op' = "pull_nocheck" \/ (op' = "pull" /\ ret' = FIFO_OK)) =>
             /\ fifo_desc'.read_index =
                    IF fifo_desc.read_index = 2 * fifo_desc.size - 1
                    THEN 0 ELSE fifo_desc.read_index + 1
             /\ fifo_desc'.write_index = fifo_desc.write_index
       /\ (op' \in {"push", "pull"} /\ ret' # FIFO_OK) =>
             /\ fifo_desc'.write_index = fifo_desc.write_index
             /\ fifo_desc'.read_index = fifo_desc.read_index
    ]_vars

\* a push has just wrapped write_index from 2*size - 1 to 0
C21_Witness ==
    /\ op \in {"push", "push_nocheck"}
    /\ fifo_desc.size = 2
    /\ fifo_desc.write_index = 0
    /\ fifo_desc.read_index = 3
    /\ Len(pushed) = 4 /\ Len(pulled) = 3

---------------------------------------------------------------------------
\* C22: for every size fifo_init accepts (powers of two 1 .. 128) the mask is
\* 2*size - 1 and mask >> 1 is size - 1; the slot index & (mask >> 1) of
\* every index 0 .. 2*size - 1 equals index mod size and lies in 0 .. size-1,
\* indices that differ by size share their slot, and for size 1 the slot is
\* 0. Every push stores into slot write_index mod size and nowhere else,
\* every pull and every peek reads slot read_index mod size, and the slot is
\* an element of the storage block.
C22_SlotInBounds ==
    [][/\ (op' = "init" /\ inited') =>
             /\ fifo_desc'.size \in {1, 2, 4, 8, 16, 32, 64, 128}
             /\ fifo_desc'.mask = 2 * fifo_desc'.size - 1
             /\ fifo_desc'.mask \div 2 = fifo_desc'.size - 1
             /\ DOMAIN buffer' = 0..(fifo_desc'.size - 1)
             /\ \A index \in 0..fifo_desc'.mask :
                   /\ Slot(fifo_desc', index) = index % fifo_desc'.size
                   /\ Slot(fifo_desc', index) \in DOMAIN buffer'
                   /\ index < fifo_desc'.size =>
                         Slot(fifo_desc', index + fifo_desc'.size)
                             = Slot(fifo_desc', index)
                   /\ fifo_desc'.size = 1 => Slot(fifo_desc', index) = 0
       /\ (op' \in {"push_nocheck", "push"} /\ pushed' # pushed) =>
             /\ fifo_desc.write_index % fifo_desc.size \in DOMAIN buffer
             /\ buffer' = [buffer EXCEPT
                    ![fifo_desc.write_index % fifo_desc.size] =
                        Elem(width, pushed'[Len(pushed')])]
       /\ (op' = "pull" /\ ret' = FIFO_OK) =>
             item' = buffer[fifo_desc.read_index % fifo_desc.size]
       /\ op' \in {"pull_nocheck", "peek"} =>
             val' = buffer[fifo_desc.read_index % fifo_desc.size]
    ]_vars

\* the largest size on its second lap: peek at index 200, which is slot 72,
\* while the newest element lies one slot further
C22_Witness ==
    /\ op = "peek"
    /\ fifo_desc.size = 128
    /\ fifo_desc.read_index = 200
    /\ fifo_desc.write_index = 202
    /\ val = buffer[72]
    /\ buffer[73] # buffer[72]

---------------------------------------------------------------------------
\* C23: stale reads are conservative. The index a side loads of itself is
\* never stale; with the other side's index possibly stale, the producer's
\* check sees at least as many elements as there are and the consumer's check
\* at most as many. So from the moment a checked push has found the buffer
\* not full until it has stored its index the buffer is not full, and from
\* the moment a checked pull has found it not empty until it has stored its
\* index the buffer is not empty: a stale check can only give a spurious
\* FIFO_ERROR_OVERFLOW or FIFO_ERROR_UNDERFLOW.
C23_StaleConservative ==
    inited =>
        /\ (prod.pc \in {"index", "store", "publish"} /\ ~prod.nocheck) =>
               Occupancy(fifo_desc) < fifo_desc.size
        /\ (cons.pc \in {"index", "load", "publish"} /\ ~cons.nocheck) =>
               Occupancy(fifo_desc) > 0
        /\ prod.pc = "check_r" => prod.w = fifo_desc.write_index
        /\ cons.pc = "check_w" => cons.r = fifo_desc.read_index
        /\ prod.pc = "check_w" =>
               Occupancy([fifo_desc EXCEPT !.read_index = prod.r])
                   >= Occupancy(fifo_desc)
        /\ cons.pc = "check_r" =>
               Occupancy([fifo_desc EXCEPT !.write_index = cons.w])
                   <= Occupancy(fifo_desc)

\* the producer holds a stale read_index that makes the buffer look full
\* while the consumer has already taken an element: the push will return
\* FIFO_ERROR_OVERFLOW although there is room
C23_Witness ==
    /\ prod.pc = "check_w"
    /\ prod.r # fifo_desc.read_index
    /\ fifo_is_full([fifo_desc EXCEPT !.read_index = prod.r])
    /\ ~fifo_is_full(fifo_desc)
    /\ Occupancy(fifo_desc) < fifo_desc.size
    /\ cons.pc = "idle"

---------------------------------------------------------------------------
\* C24: a push of the 32-bit value v followed by the matching pull returns
\* v mod 2^8 through the uint8 variants, v mod 2^16 through the uint16
\* variants and v through the uint32 variants, checked or unchecked; what
\* comes back is v itself exactly when v < 2^width; the indices move by one
\* modulo 2*size in the same way at every width.
C24_Truncation ==
    [][/\ (op' = "pull_nocheck" \/ (op' = "pull" /\ ret' = FIFO_OK)) =>
             LET v == pushed[Len(pulled) + 1]
                 got == IF op' = "pull" THEN item' ELSE val'
             IN  /\ got = IF width = 8 THEN v % 256
                          ELSE IF width = 16 THEN v % 65536 ELSE v
                 /\ (got = v) <=> (IF width = 8 THEN v < 256
                                   ELSE IF width = 16 THEN v < 65536 ELSE TRUE)
                 /\ fifo_desc'.read_index =
                        (fifo_desc.read_index + 1) % (2 * fifo_desc.size)
       /\ (op' = "push_nocheck" \/ (op' = "push" /\ ret' = FIFO_OK)) =>
             fifo_desc'.write_index =
                 (fifo_desc.write_index + 1) % (2 * fifo_desc.size)
    ]_vars

\* 258 has come back as 2 from an unchecked uint8 pull, behind a 7 that
\* came back whole
C24_Witness ==
    /\ op = "pull_nocheck" /\ width = 8
    /\ Len(pulled) = 2
    /\ pushed[1] = 7 /\ pulled[1] = 7
    /\ pushed[2] = 258 /\ val = 2
    /\ fifo_desc.size = 1

---------------------------------------------------------------------------
\* C25: at every entry to HFSampleLoop, after any number of complete
\* invocations, 0 <= curChannel < CHANNELS, 0 <= overSamplePos < OVERSAMPLING
\* and 0 <= writePos < MAXBUFFER, and the element of buf accessed lies inside
\* buf; writePos advances by one, from MAXBUFFER - 1 to 0, and railFull is
\* set to true once every CHANNELS * OVERSAMPLING invocations; railFull is
\* true from the first time on.
C25_SampleCounters ==
    /\ curChannel \in 0..(CHANNELS - 1)
    /\ overSamplePos \in 0..(OVERSAMPLING - 1)
    /\ writePos \in 0..(MAXBUFFER - 1)
    /\ cell[1] \in 0..(CHANNELS - 1) /\ cell[2] \in 0..(MAXBUFFER - 1)
    /\ curChannel = calls % CHANNELS
    /\ overSamplePos = (calls \div CHANNELS) % OVERSAMPLING
    /\ writePos = (calls \div (CHANNELS * OVERSAMPLING)) % MAXBUFFER
    /\ railSets = calls \div (CHANNELS * OVERSAMPLING)
    /\ railFull <=> calls >= CHANNELS * OVERSAMPLING

\* writePos has gone round: the first invocation after the wrap has accessed
\* column 0 again
C25_Witness ==
    /\ calls = MAXBUFFER * CHANNELS * OVERSAMPLING + 1
    /\ writePos = 0 /\ curChannel = 1
    /\ cell = <<0, 0>>
    /\ railFull /\ railSets = MAXBUFFER

=============================================================================
